---- MODULE Spec2Model ----
(***************************************************************************)
(* Model of skopio-ls (src/skopio-ls/src/main.rs): the session store       *)
(* behind one tokio Mutex, the request handlers note_activity,             *)
(* flush_closed, initialize and shutdown, the background task              *)
(* periodic_flush_tick, and emit_cli_event.                                *)
(*                                                                         *)
(* Every handler is a small process with a program counter; a step that    *)
(* needs the store lock is enabled only while the lock is free, and a      *)
(* critical section of several statements holds the lock across steps.    *)
(* Time is counted in whole seconds; SystemTime and Instant advance        *)
(* together and never go backwards.                                        *)
(*                                                                         *)
(* Spec is the program under every interleaving of its tasks.  SwitchSpec  *)
(* and IdleSpec run it with the default configuration under a scripted     *)
(* sequence of signals, ShortSpec with idle_timeout = switch_grace, and    *)
(* LiveSpec adds the fairness of the runtime.                              *)
(***************************************************************************)
EXTENDS Integers, Sequences, FiniteSets, TLC

VARIABLES
    cfg,            \* CliConfig: idle_timeout, switch_grace, min_session_secs
    wall,           \* SystemTime::now() in seconds since the epoch
    mono,           \* Instant::now() in seconds
    workspace_root, \* State.workspace_root (None or a path)
    sessions,       \* State.sessions: HashMap key -> Session
    current_key,    \* State.current_key (None or a key)
    lock,           \* owner of the Mutex<State>, or None
    pc,             \* position of every task
    nloc,           \* note_activity locals: key, now_ts, now_instant, project
    c_key,          \* flush_closed: key
    c_maybe,        \* flush_closed: maybe (Seq of at most one Session)
    s_now,          \* periodic_flush_tick: now
    to_flush,       \* periodic_flush_tick: to_flush
    sd_sessions,    \* shutdown: sessions
    next_id,        \* number of Session values constructed so far
    calls,          \* number of initialize, note_activity and flush_closed calls so far
    reports,        \* history: per session instance, the emit_cli_event calls
    drained,        \* history: the session instances the shutdown drain took
    defensive       \* history: the sweeper's else branch (line 237) was taken

vars == <<cfg, wall, mono, workspace_root, sessions, current_key, lock, pc,
          nloc, c_key, c_maybe, s_now, to_flush, sd_sessions, next_id,
          calls, reports, drained, defensive>>

-----------------------------------------------------------------------------
(* Bounds of the model *)

MaxTime == 2        \* the clocks stop advancing here
MaxCalls == 3       \* at most this many initialize, note_activity and flush_closed calls

(* Values SKOPIO_ZED_IDLE_SECS, SKOPIO_ZED_SWITCH_GRACE_SECS and
   SKOPIO_ZED_MIN_SESSION_SECS take in the model (from_env, lines 36-47) *)
IdleSecs == {2}
GraceSecs == {1}
MinSecs == {1}

None == "none"

(* Two document URIs: one with the file scheme, one without *)
Keys == {"file:///a", "untitled:b"}

(* Workspace roots an initialize request can carry (None: no root_uri and
   no workspace folder) *)
Roots == {None, "/w"}

NoteTasks == {"n1", "n2"}
CloseTask == "close"
Sweeper == "sweeper"
InitTask == "init"
ShutdownTask == "shutdown"
Tasks == NoteTasks \cup {CloseTask, Sweeper, InitTask, ShutdownTask}

Ids == 1..MaxCalls

-----------------------------------------------------------------------------
(* Pure functions *)

(* uri_to_path_string: Some(path) for a file URI, None otherwise *)
uri_to_path_string(uri) ==
    IF uri = "file:///a" THEN "/a" ELSE None

(* State::project_string *)
project_string(root) ==
    IF root = None THEN "unknown" ELSE root

(* entity of a new session: uri_to_path_string(&uri).unwrap_or_else(|| key) *)
entity_of(key) ==
    IF uri_to_path_string(key) = None THEN key ELSE uri_to_path_string(key)

(* Instant::duration_since: saturates at zero *)
duration_since(now, earlier) ==
    IF now >= earlier THEN now - earlier ELSE 0

(* emit_cli_event that discards only sessions of negative duration *)
runs_cli_NoFilter(c, sess) ==
    ~((sess.last_ts - sess.start_ts) < 0)

(* emit_cli_event, lines 104-109: TRUE when the command is run *)
runs_cli(c, sess) ==
    ~((sess.last_ts - sess.start_ts) < c.min_session_secs)

(* emit_cli_event, lines 104-105 and 123-124: the value of --duration *)
event_duration(sess) == sess.last_ts - sess.start_ts

(* HashMap::remove *)
map_remove(m, ks) == [k \in (DOMAIN m) \ ks |-> m[k]]

(* HashMap::insert *)
map_insert(m, key, v) == [k \in (DOMAIN m) \cup {key} |-> IF k = key THEN v ELSE m[k]]

(* All orders in which a HashMap can yield the sessions of the keys ks *)
orders(m, ks) ==
    {s \in UNION {[1..n -> ks] : n \in {Cardinality(ks)}} :
        \A i, j \in DOMAIN s : i # j => s[i] # s[j]}

seq_of(m, order) == [i \in DOMAIN order |-> m[order[i]]]

NoLocals == [key |-> None, now_ts |-> 0, now_instant |-> 0, project |-> None]

-----------------------------------------------------------------------------
(* main, lines 343-352, and CliConfig::from_env *)

Init ==
    /\ cfg \in [idle_timeout : IdleSecs, switch_grace : GraceSecs,
                min_session_secs : MinSecs]
    /\ wall = 0
    /\ mono = 0
    /\ workspace_root = None
    /\ sessions = <<>>
    /\ current_key = None
    /\ lock = None
    /\ pc = [t \in Tasks |-> IF t = Sweeper THEN "s_sleep" ELSE "idle"]
    /\ nloc = [t \in NoteTasks |-> NoLocals]
    /\ c_key = None
    /\ c_maybe = <<>>
    /\ s_now = 0
    /\ to_flush = <<>>
    /\ sd_sessions = <<>>
    /\ next_id = 0
    /\ calls = 0
    /\ reports = [i \in Ids |-> <<>>]
    /\ drained = {}
    /\ defensive = FALSE

(* Both clocks advance by one second *)
AdvanceClock ==
    /\ mono < MaxTime
    /\ mono' = mono + 1
    /\ wall' = wall + 1
    /\ UNCHANGED <<drained, calls, cfg, workspace_root, sessions, current_key, lock, pc, nloc,
                   c_key, c_maybe, s_now, to_flush, sd_sessions, next_id,
                   reports, defensive>>


-----------------------------------------------------------------------------
(* emit_cli_event, lines 103-140 *)

(* The call: a session shorter than min_session_secs returns Ok(()) at once
   (line 108); otherwise the command is spawned and awaited (lines 111-133).
   The history keeps, per session instance, who called and whether the
   command was run. *)
EmitCall(t, by, sess, wait_pc, next_pc) ==
    /\ reports' = [reports EXCEPT ![sess.id] = Append(@,
            [by |-> by, cli |-> runs_cli(cfg, sess)])]
    /\ pc' = [pc EXCEPT ![t] = IF runs_cli(cfg, sess) THEN wait_pc ELSE next_pc]

(* The command exits: success gives Ok(()), anything else an error
   (lines 133-139).  Nothing makes the command exit: a call that hangs is a
   call for which this step is never taken. *)
EmitReturn(t, ok_pc, err_pc) ==
    \E r \in {"ok", "err"} :
        pc' = [pc EXCEPT ![t] = IF r = "ok" THEN ok_pc ELSE err_pc]

-----------------------------------------------------------------------------
(* Backend::note_activity, lines 149-188 *)

(* lines 150-153: the clocks are read before any lock is taken.  The
   protocol layer delivers no new notification once shutdown was requested.
   The note tasks are interchangeable slots: a new call takes n1 when n1 is
   free and n2 otherwise. *)
NoteStart(t, k) ==
    /\ pc[t] = "idle"
    /\ pc[ShutdownTask] = "idle"
    /\ (t = "n2") => (pc["n1"] # "idle")
    /\ calls < MaxCalls
    /\ calls' = calls + 1
    /\ nloc' = [nloc EXCEPT ![t] = [key |-> k, now_ts |-> wall,
                                    now_instant |-> mono, project |-> None]]
    /\ pc' = [pc EXCEPT ![t] = "n_proj"]
    /\ UNCHANGED <<drained, cfg, wall, mono, workspace_root, sessions, current_key,
                   lock, c_key, c_maybe, s_now, to_flush, sd_sessions,
                   next_id, reports, defensive>>

(* lines 155-161: first lock acquisition, reads the project *)
NoteProject(t) ==
    /\ pc[t] = "n_proj"
    /\ lock = None
    /\ nloc' = [nloc EXCEPT ![t].project = project_string(workspace_root)]
    /\ pc' = [pc EXCEPT ![t] = "n_lock"]
    /\ UNCHANGED <<drained, calls, cfg, wall, mono, workspace_root, sessions, current_key,
                   lock, c_key, c_maybe, s_now, to_flush, sd_sessions,
                   next_id, reports, defensive>>

(* note_activity that drops the session of the previous current key when a new
   key is inserted *)
NoteUpdate_DropPrevious(t) ==
    /\ pc[t] = "n_lock"
    /\ lock = None
    /\ LET l == nloc[t] IN
       IF l.key \in DOMAIN sessions
       THEN /\ sessions' = [sessions EXCEPT
                    ![l.key].last_ts = l.now_ts,
                    ![l.key].last_seen = l.now_instant,
                    ![l.key].sig_first = IF l.now_ts < @ THEN l.now_ts ELSE @,
                    ![l.key].sig_last = IF l.now_ts > @ THEN l.now_ts ELSE @]
            /\ UNCHANGED next_id
       ELSE /\ next_id' = next_id + 1
            /\ sessions' = map_insert(map_remove(sessions, {current_key}), l.key,
                    [id |-> next_id + 1,
                     entity |-> entity_of(l.key),
                     project |-> l.project,
                     start_ts |-> l.now_ts,
                     last_ts |-> l.now_ts,
                     last_seen |-> l.now_instant,
                     sig_first |-> l.now_ts,
                     sig_last |-> l.now_ts])
    /\ current_key' = nloc[t].key
    /\ nloc' = [nloc EXCEPT ![t] = NoLocals]
    /\ pc' = [pc EXCEPT ![t] = "idle"]
    /\ UNCHANGED <<drained, calls, cfg, wall, mono, workspace_root, lock, c_key, c_maybe,
                   s_now, to_flush, sd_sessions, reports, defensive>>

(* note_activity that overwrites start_ts as well when the key has a session *)
NoteUpdate_ResetStart(t) ==
    /\ pc[t] = "n_lock"
    /\ lock = None
    /\ LET l == nloc[t] IN
       IF l.key \in DOMAIN sessions
       THEN /\ sessions' = [sessions EXCEPT
                    ![l.key].start_ts = l.now_ts,
                    ![l.key].last_ts = l.now_ts,
                    ![l.key].last_seen = l.now_instant,
                    ![l.key].sig_first = IF l.now_ts < @ THEN l.now_ts ELSE @,
                    ![l.key].sig_last = IF l.now_ts > @ THEN l.now_ts ELSE @]
            /\ UNCHANGED next_id
       ELSE /\ next_id' = next_id + 1
            /\ sessions' = map_insert(sessions, l.key,
                    [id |-> next_id + 1,
                     entity |-> entity_of(l.key),
                     project |-> l.project,
                     start_ts |-> l.now_ts,
                     last_ts |-> l.now_ts,
                     last_seen |-> l.now_instant,
                     sig_first |-> l.now_ts,
                     sig_last |-> l.now_ts])
    /\ current_key' = nloc[t].key
    /\ nloc' = [nloc EXCEPT ![t] = NoLocals]
    /\ pc' = [pc EXCEPT ![t] = "idle"]
    /\ UNCHANGED <<drained, calls, cfg, wall, mono, workspace_root, lock, c_key, c_maybe,
                   s_now, to_flush, sd_sessions, reports, defensive>>

(* lines 163-187: second lock acquisition, update or insert, mark current.
   sig_first and sig_last are history fields, no fields of Session: the
   earliest and the latest timestamp read by the calls applied to the
   session so far. *)
NoteUpdate(t) ==
    /\ pc[t] = "n_lock"
    /\ lock = None
    /\ LET l == nloc[t] IN
       IF l.key \in DOMAIN sessions
       THEN /\ sessions' = [sessions EXCEPT
                    ![l.key].last_ts = l.now_ts,
                    ![l.key].last_seen = l.now_instant,
                    ![l.key].sig_first = IF l.now_ts < @ THEN l.now_ts ELSE @,
                    ![l.key].sig_last = IF l.now_ts > @ THEN l.now_ts ELSE @]
            /\ UNCHANGED next_id
       ELSE /\ next_id' = next_id + 1
            /\ sessions' = map_insert(sessions, l.key,
                    [id |-> next_id + 1,
                     entity |-> entity_of(l.key),
                     project |-> l.project,
                     start_ts |-> l.now_ts,
                     last_ts |-> l.now_ts,
                     last_seen |-> l.now_instant,
                     sig_first |-> l.now_ts,
                     sig_last |-> l.now_ts])
    /\ current_key' = nloc[t].key
    /\ nloc' = [nloc EXCEPT ![t] = NoLocals]
    /\ pc' = [pc EXCEPT ![t] = "idle"]
    /\ UNCHANGED <<drained, calls, cfg, wall, mono, workspace_root, lock, c_key, c_maybe,
                   s_now, to_flush, sd_sessions, reports, defensive>>

-----------------------------------------------------------------------------
(* Backend::flush_closed, lines 190-213 *)

(* flush_closed that takes a clone of the session and leaves it in the map *)
CloseRemove_KeepSession(k) ==
    /\ pc[CloseTask] = "idle"
    /\ pc[ShutdownTask] = "idle"
    /\ calls < MaxCalls
    /\ calls' = calls + 1
    /\ lock = None
    /\ lock' = CloseTask
    /\ c_key' = k
    /\ IF k \in DOMAIN sessions
       THEN /\ c_maybe' = <<sessions[k]>>
            /\ sessions' = sessions
       ELSE UNCHANGED <<c_maybe, sessions>>
    /\ pc' = [pc EXCEPT ![CloseTask] = "c_clear"]
    /\ UNCHANGED <<drained, cfg, wall, mono, workspace_root, current_key, nloc,
                   s_now, to_flush, sd_sessions, next_id, reports, defensive>>

(* lines 191-195: the key is computed, then lock and remove the session of
   the key.  The protocol layer delivers no new notification once shutdown
   was requested. *)
CloseRemove(k) ==
    /\ pc[CloseTask] = "idle"
    /\ pc[ShutdownTask] = "idle"
    /\ calls < MaxCalls
    /\ calls' = calls + 1
    /\ lock = None
    /\ lock' = CloseTask
    /\ c_key' = k
    /\ IF k \in DOMAIN sessions
       THEN /\ c_maybe' = <<sessions[k]>>
            /\ sessions' = map_remove(sessions, {k})
       ELSE UNCHANGED <<c_maybe, sessions>>
    /\ pc' = [pc EXCEPT ![CloseTask] = "c_clear"]
    /\ UNCHANGED <<drained, cfg, wall, mono, workspace_root, current_key, nloc,
                   s_now, to_flush, sd_sessions, next_id, reports, defensive>>

(* flush_closed that removes the session and leaves the current marker *)
CloseClear_KeepCurrent ==
    /\ pc[CloseTask] = "c_clear"
    /\ lock = CloseTask
    /\ current_key' = current_key
    /\ lock' = None
    /\ pc' = [pc EXCEPT ![CloseTask] = IF c_maybe = <<>> THEN "idle" ELSE "c_emit"]
    /\ c_key' = None
    /\ UNCHANGED <<drained, calls, cfg, wall, mono, workspace_root, sessions, nloc, c_maybe,
                   s_now, to_flush, sd_sessions, next_id, reports, defensive>>

(* flush_closed that calls emit_cli_event inside the block that holds the guard *)
CloseClear_KeepLock ==
    /\ pc[CloseTask] = "c_clear"
    /\ lock = CloseTask
    /\ current_key' = IF current_key = c_key THEN None ELSE current_key
    /\ lock' = lock
    /\ pc' = [pc EXCEPT ![CloseTask] = IF c_maybe = <<>> THEN "idle" ELSE "c_emit"]
    /\ c_key' = None
    /\ UNCHANGED <<drained, calls, cfg, wall, mono, workspace_root, sessions, nloc, c_maybe,
                   s_now, to_flush, sd_sessions, next_id, reports, defensive>>

(* flush_closed that clears the current marker whatever key it names *)
CloseClear_AlwaysClear ==
    /\ pc[CloseTask] = "c_clear"
    /\ lock = CloseTask
    /\ current_key' = None
    /\ lock' = None
    /\ pc' = [pc EXCEPT ![CloseTask] = IF c_maybe = <<>> THEN "idle" ELSE "c_emit"]
    /\ c_key' = None
    /\ UNCHANGED <<drained, calls, cfg, wall, mono, workspace_root, sessions, nloc, c_maybe,
                   s_now, to_flush, sd_sessions, next_id, reports, defensive>>

(* lines 196-200: clear the current marker if it names the key, unlock;
   line 202: nothing more to do when no session was removed *)
CloseClear ==
    /\ pc[CloseTask] = "c_clear"
    /\ lock = CloseTask
    /\ current_key' = IF current_key = c_key THEN None ELSE current_key
    /\ lock' = None
    /\ pc' = [pc EXCEPT ![CloseTask] = IF c_maybe = <<>> THEN "idle" ELSE "c_emit"]
    /\ c_key' = None
    /\ UNCHANGED <<drained, calls, cfg, wall, mono, workspace_root, sessions, nloc, c_maybe,
                   s_now, to_flush, sd_sessions, next_id, reports, defensive>>

(* lines 202-203: the removed session is handed to emit_cli_event *)
CloseEmit ==
    /\ pc[CloseTask] = "c_emit"
    /\ EmitCall(CloseTask, "close", c_maybe[1], "c_cli", "idle")
    /\ c_maybe' = <<>>
    /\ UNCHANGED <<drained, calls, cfg, wall, mono, workspace_root, sessions, current_key,
                   lock, nloc, c_key, s_now, to_flush, sd_sessions, next_id,
                   defensive>>

(* line 203: the call returns, Ok or Err *)
CloseEmitReturn ==
    /\ pc[CloseTask] = "c_cli"
    /\ EmitReturn(CloseTask, "idle", "c_log")
    /\ UNCHANGED <<drained, calls, cfg, wall, mono, workspace_root, sessions, current_key,
                   lock, nloc, c_key, c_maybe, s_now, to_flush, sd_sessions,
                   next_id, reports, defensive>>

(* lines 204-210: an error is sent to the client's log and dropped *)
CloseLog ==
    /\ pc[CloseTask] = "c_log"
    /\ pc' = [pc EXCEPT ![CloseTask] = "idle"]
    /\ UNCHANGED <<drained, calls, cfg, wall, mono, workspace_root, sessions, current_key,
                   lock, nloc, c_key, c_maybe, s_now, to_flush, sd_sessions,
                   next_id, reports, defensive>>

-----------------------------------------------------------------------------
(* Backend::periodic_flush_tick, lines 215-271 *)

(* lines 218-221: the interval fires, now is read, to_flush is empty *)
SweepTick ==
    /\ pc[Sweeper] = "s_sleep"
    /\ s_now' = mono
    /\ pc' = [pc EXCEPT ![Sweeper] = "s_idle"]
    /\ UNCHANGED <<drained, calls, cfg, wall, mono, workspace_root, sessions, current_key,
                   lock, nloc, c_key, c_maybe, to_flush, sd_sessions, next_id,
                   reports, defensive>>

(* idle flush that pushes a clone of the current session and leaves it in the map *)
SweepIdle_NoRemove ==
    /\ pc[Sweeper] = "s_idle"
    /\ lock = None
    /\ lock' = Sweeper
    /\ IF current_key # None
       THEN IF current_key \in DOMAIN sessions
            THEN IF duration_since(s_now, sessions[current_key].last_seen)
                        >= cfg.idle_timeout
                 THEN /\ to_flush' = Append(to_flush, sessions[current_key])
                      /\ sessions' = sessions
                      /\ current_key' = None
                      /\ UNCHANGED defensive
                 ELSE UNCHANGED <<to_flush, sessions, current_key,
                                  defensive>>
            ELSE /\ current_key' = None
                 /\ defensive' = TRUE
                 /\ UNCHANGED <<to_flush, sessions>>
       ELSE UNCHANGED <<to_flush, sessions, current_key, defensive>>
    /\ pc' = [pc EXCEPT ![Sweeper] = "s_grace"]
    /\ UNCHANGED <<drained, calls, cfg, wall, mono, workspace_root, nloc, c_key, c_maybe,
                   s_now, sd_sessions, next_id, reports>>

(* idle flush that compares with > where the code has >= *)
SweepIdle_Strict ==
    /\ pc[Sweeper] = "s_idle"
    /\ lock = None
    /\ lock' = Sweeper
    /\ IF current_key # None
       THEN IF current_key \in DOMAIN sessions
            THEN IF duration_since(s_now, sessions[current_key].last_seen)
                        > cfg.idle_timeout
                 THEN /\ to_flush' = Append(to_flush, sessions[current_key])
                      /\ sessions' = map_remove(sessions, {current_key})
                      /\ current_key' = None
                      /\ UNCHANGED defensive
                 ELSE UNCHANGED <<to_flush, sessions, current_key,
                                  defensive>>
            ELSE /\ current_key' = None
                 /\ defensive' = TRUE
                 /\ UNCHANGED <<to_flush, sessions>>
       ELSE UNCHANGED <<to_flush, sessions, current_key, defensive>>
    /\ pc' = [pc EXCEPT ![Sweeper] = "s_grace"]
    /\ UNCHANGED <<drained, calls, cfg, wall, mono, workspace_root, nloc, c_key, c_maybe,
                   s_now, sd_sessions, next_id, reports>>

(* lines 224-239: lock, idle flush of the current session *)
SweepIdle ==
    /\ pc[Sweeper] = "s_idle"
    /\ lock = None
    /\ lock' = Sweeper
    /\ IF current_key # None
       THEN IF current_key \in DOMAIN sessions
            THEN IF duration_since(s_now, sessions[current_key].last_seen)
                        >= cfg.idle_timeout
                 THEN /\ to_flush' = Append(to_flush, sessions[current_key])
                      /\ sessions' = map_remove(sessions, {current_key})
                      /\ current_key' = None
                      /\ UNCHANGED defensive
                 ELSE UNCHANGED <<to_flush, sessions, current_key,
                                  defensive>>
            ELSE /\ current_key' = None
                 /\ defensive' = TRUE
                 /\ UNCHANGED <<to_flush, sessions>>
       ELSE UNCHANGED <<to_flush, sessions, current_key, defensive>>
    /\ pc' = [pc EXCEPT ![Sweeper] = "s_grace"]
    /\ UNCHANGED <<drained, calls, cfg, wall, mono, workspace_root, nloc, c_key, c_maybe,
                   s_now, sd_sessions, next_id, reports>>

(* grace scan that is skipped when no key is current *)
keys_to_remove_NeedsCurrent(st_sessions, cur, now, grace) ==
    {k \in DOMAIN st_sessions :
        /\ cur # None
        /\ ~(cur = k)
        /\ duration_since(now, st_sessions[k].last_seen) >= grace}

(* grace scan without the is_current test *)
keys_to_remove_AnyKey(st_sessions, cur, now, grace) ==
    {k \in DOMAIN st_sessions :
        duration_since(now, st_sessions[k].last_seen) >= grace}

(* grace scan that compares with > where the code has >= *)
keys_to_remove_Strict(st_sessions, cur, now, grace) ==
    {k \in DOMAIN st_sessions :
        /\ ~(cur = k)
        /\ duration_since(now, st_sessions[k].last_seen) > grace}

(* lines 244-258: the keys the grace rule removes *)
keys_to_remove(st_sessions, cur, now, grace) ==
    {k \in DOMAIN st_sessions :
        /\ ~(cur = k)
        /\ duration_since(now, st_sessions[k].last_seen) >= grace}

(* lines 240-265: grace flush of the non-current sessions, unlock *)
SweepGrace ==
    /\ pc[Sweeper] = "s_grace"
    /\ lock = Sweeper
    /\ LET ks == keys_to_remove(sessions, current_key, s_now, cfg.switch_grace) IN
       /\ \E o \in orders(sessions, ks) :
            to_flush' = to_flush \o seq_of(sessions, o)
       /\ sessions' = map_remove(sessions, ks)
    /\ lock' = None
    /\ s_now' = 0
    /\ pc' = [pc EXCEPT ![Sweeper] = IF to_flush' = <<>> THEN "s_sleep" ELSE "s_emit"]
    /\ UNCHANGED <<drained, calls, cfg, wall, mono, workspace_root, current_key, nloc, c_key,
                   c_maybe, sd_sessions, next_id, reports, defensive>>

(* lines 267-268: the next session of to_flush is handed to emit_cli_event *)
SweepEmit ==
    /\ pc[Sweeper] = "s_emit"
    /\ EmitCall(Sweeper, "sweeper", Head(to_flush), "s_cli",
                IF Tail(to_flush) = <<>> THEN "s_sleep" ELSE "s_emit")
    /\ to_flush' = Tail(to_flush)
    /\ UNCHANGED <<drained, calls, cfg, wall, mono, workspace_root, sessions, current_key,
                   lock, nloc, c_key, c_maybe, s_now, sd_sessions, next_id, defensive>>

(* line 268: the call returns; after Ok the loop goes on *)
SweepEmitReturn ==
    /\ pc[Sweeper] = "s_cli"
    /\ EmitReturn(Sweeper, IF to_flush = <<>> THEN "s_sleep" ELSE "s_emit",
                           "s_err")
    /\ UNCHANGED <<drained, calls, cfg, wall, mono, workspace_root, sessions, current_key,
                   lock, nloc, c_key, c_maybe, s_now, to_flush, sd_sessions,
                   next_id, reports, defensive>>

(* sweeper that leaves the for loop at the first Err and forgets the rest *)
SweepEmitErr_Break ==
    /\ pc[Sweeper] = "s_err"
    /\ pc' = [pc EXCEPT ![Sweeper] = "s_sleep"]
    /\ to_flush' = <<>>
    /\ UNCHANGED <<drained, calls, cfg, wall, mono, workspace_root, sessions, current_key,
                   lock, nloc, c_key, c_maybe, s_now, sd_sessions,
                   next_id, reports, defensive>>

(* line 268: `let _ =` drops an Err; the loop goes on *)
SweepEmitErr ==
    /\ pc[Sweeper] = "s_err"
    /\ pc' = [pc EXCEPT ![Sweeper] = IF to_flush = <<>> THEN "s_sleep" ELSE "s_emit"]
    /\ UNCHANGED <<drained, calls, cfg, wall, mono, workspace_root, sessions, current_key,
                   lock, nloc, c_key, c_maybe, s_now, to_flush, sd_sessions,
                   next_id, reports, defensive>>

-----------------------------------------------------------------------------
(* LanguageServer::initialize, lines 276-303 *)

Initialize(root) ==
    /\ pc[InitTask] = "idle"
    /\ calls < MaxCalls
    /\ calls' = calls + 1
    /\ lock = None
    /\ workspace_root' = root
    /\ pc' = [pc EXCEPT ![InitTask] = "done"]
    /\ UNCHANGED <<drained, cfg, wall, mono, sessions, current_key, lock, nloc, c_key,
                   c_maybe, s_now, to_flush, sd_sessions, next_id, reports,
                   defensive>>

-----------------------------------------------------------------------------
(* LanguageServer::shutdown, lines 312-323 *)

(* lines 313-316: lock, drain the map into the local vector *)
ShutdownDrain ==
    /\ pc[ShutdownTask] = "idle"
    /\ lock = None
    /\ lock' = ShutdownTask
    /\ \E o \in orders(sessions, DOMAIN sessions) :
            sd_sessions' = seq_of(sessions, o)
    /\ sessions' = <<>>
    /\ drained' = {sessions[k].id : k \in DOMAIN sessions}
    /\ pc' = [pc EXCEPT ![ShutdownTask] = "sd_clear"]
    /\ UNCHANGED <<calls, cfg, wall, mono, workspace_root, current_key, nloc, c_key,
                   c_maybe, s_now, to_flush, next_id, reports, defensive>>

(* shutdown that drains the map and leaves the current marker *)
ShutdownClear_KeepCurrent ==
    /\ pc[ShutdownTask] = "sd_clear"
    /\ lock = ShutdownTask
    /\ current_key' = current_key
    /\ lock' = None
    /\ pc' = [pc EXCEPT ![ShutdownTask] =
                IF sd_sessions = <<>> THEN "sd_done" ELSE "sd_emit"]
    /\ UNCHANGED <<drained, calls, cfg, wall, mono, workspace_root, sessions, nloc, c_key,
                   c_maybe, s_now, to_flush, sd_sessions, next_id,
                   reports, defensive>>

(* lines 317-318: clear the current marker, unlock *)
ShutdownClear ==
    /\ pc[ShutdownTask] = "sd_clear"
    /\ lock = ShutdownTask
    /\ current_key' = None
    /\ lock' = None
    /\ pc' = [pc EXCEPT ![ShutdownTask] =
                IF sd_sessions = <<>> THEN "sd_done" ELSE "sd_emit"]
    /\ UNCHANGED <<drained, calls, cfg, wall, mono, workspace_root, sessions, nloc, c_key,
                   c_maybe, s_now, to_flush, sd_sessions, next_id,
                   reports, defensive>>

(* lines 319-320: the next drained session is handed to emit_cli_event *)
ShutdownEmit ==
    /\ pc[ShutdownTask] = "sd_emit"
    /\ EmitCall(ShutdownTask, "shutdown", Head(sd_sessions), "sd_cli",
                IF Tail(sd_sessions) = <<>> THEN "sd_done" ELSE "sd_emit")
    /\ sd_sessions' = Tail(sd_sessions)
    /\ UNCHANGED <<drained, calls, cfg, wall, mono, workspace_root, sessions, current_key,
                   lock, nloc, c_key, c_maybe, s_now, to_flush, next_id, defensive>>

(* lines 320-322: the call returns; after Ok the loop goes on, Ok(()) at the
   end *)
ShutdownEmitReturn ==
    /\ pc[ShutdownTask] = "sd_cli"
    /\ EmitReturn(ShutdownTask,
                  IF sd_sessions = <<>> THEN "sd_done" ELSE "sd_emit",
                  "sd_err")
    /\ UNCHANGED <<drained, calls, cfg, wall, mono, workspace_root, sessions, current_key,
                   lock, nloc, c_key, c_maybe, s_now, to_flush, sd_sessions,
                   next_id, reports, defensive>>

(* lines 320-322: `let _ =` drops an Err; the loop goes on, Ok(()) at the end *)
ShutdownEmitErr ==
    /\ pc[ShutdownTask] = "sd_err"
    /\ pc' = [pc EXCEPT ![ShutdownTask] =
                IF sd_sessions = <<>> THEN "sd_done" ELSE "sd_emit"]
    /\ UNCHANGED <<drained, calls, cfg, wall, mono, workspace_root, sessions, current_key,
                   lock, nloc, c_key, c_maybe, s_now, to_flush, sd_sessions,
                   next_id, reports, defensive>>

-----------------------------------------------------------------------------

NoteNext == \E t \in NoteTasks :
    \/ \E k \in Keys : NoteStart(t, k)
    \/ NoteProject(t)
    \/ NoteUpdate(t)

CloseNext ==
    \/ \E k \in Keys : CloseRemove(k)
    \/ CloseClear
    \/ CloseEmit
    \/ CloseEmitReturn
    \/ CloseLog

SweeperNext ==
    \/ SweepTick
    \/ SweepIdle
    \/ SweepGrace
    \/ SweepEmit
    \/ SweepEmitReturn
    \/ SweepEmitErr

ShutdownNext ==
    \/ ShutdownDrain
    \/ ShutdownClear
    \/ ShutdownEmit
    \/ ShutdownEmitReturn
    \/ ShutdownEmitErr

Next ==
    \/ AdvanceClock
    \/ NoteNext
    \/ CloseNext
    \/ SweeperNext
    \/ \E root \in Roots : Initialize(root)
    \/ ShutdownNext

Spec == Init /\ [][Next]_vars

-----------------------------------------------------------------------------
(* The server with the default configuration (lines 39, 43 and 47: idle 60,
   grace 60, minimum 2) under a scripted sequence of signals.  The sweeper
   runs freely: it may tick in any second. *)

ScenMaxTime == 71   \* the clocks of the scripted runs stop advancing here

DocA == "file:///a"
DocB == "untitled:b"

ScenCfg == [idle_timeout |-> 60, switch_grace |-> 60, min_session_secs |-> 2]

(* Calls the scripted run may still make *)
ScenLeft == MaxCalls - calls

(* main with the configuration c; the run may make n calls *)
InitWith(c, n) ==
    /\ cfg = c
    /\ wall = 0
    /\ mono = 0
    /\ workspace_root = None
    /\ sessions = <<>>
    /\ current_key = None
    /\ lock = None
    /\ pc = [t \in Tasks |-> IF t = Sweeper THEN "s_sleep" ELSE "idle"]
    /\ nloc = [t \in NoteTasks |-> NoLocals]
    /\ c_key = None
    /\ c_maybe = <<>>
    /\ s_now = 0
    /\ to_flush = <<>>
    /\ sd_sessions = <<>>
    /\ next_id = 0
    /\ calls = MaxCalls - n
    /\ reports = [i \in Ids |-> <<>>]
    /\ drained = {}
    /\ defensive = FALSE

(* Both clocks advance by one second *)
ScenClock ==
    /\ mono < ScenMaxTime
    /\ mono' = mono + 1
    /\ wall' = wall + 1
    /\ UNCHANGED <<drained, calls, cfg, workspace_root, sessions, current_key, lock, pc, nloc,
                   c_key, c_maybe, s_now, to_flush, sd_sessions, next_id,
                   reports, defensive>>

(* Switch scenario: A at t=0, A at t=5, B at t=5, then one more signal for B
   at any time; each call is complete before the next starts *)
SwitchSignal ==
    \/ ScenLeft = 4 /\ wall = 0 /\ NoteStart("n1", DocA)
    \/ ScenLeft = 3 /\ wall = 5 /\ NoteStart("n1", DocA)
    \/ ScenLeft = 2 /\ wall = 5 /\ NoteStart("n1", DocB)
    \/ ScenLeft = 1 /\ NoteStart("n1", DocB)

(* The scripted signals are delivered in the second the script names, and
   each of them returns within that second *)
SwitchOnTime ==
    /\ ScenLeft # 4
    /\ ~(ScenLeft \in {2, 3} /\ wall = 5)
    /\ (ScenLeft >= 1) => (pc["n1"] = "idle")

SwitchNext ==
    \/ SwitchOnTime /\ ScenClock
    \/ SwitchSignal
    \/ NoteProject("n1")
    \/ NoteUpdate("n1")
    \/ SweeperNext

SwitchSpec == InitWith(ScenCfg, 4) /\ [][SwitchNext]_vars

(* Idle scenario: A at t=0, A at t=10, nothing else *)
IdleSignal ==
    \/ ScenLeft = 2 /\ wall = 0 /\ NoteStart("n1", DocA)
    \/ ScenLeft = 1 /\ wall = 10 /\ NoteStart("n1", DocA)

(* The scripted signals are delivered in the second the script names, and
   each of them returns within that second *)
IdleOnTime ==
    /\ ScenLeft # 2
    /\ ~(ScenLeft = 1 /\ wall = 10)
    /\ pc["n1"] = "idle"

IdleNext ==
    \/ IdleOnTime /\ ScenClock
    \/ IdleSignal
    \/ NoteProject("n1")
    \/ NoteUpdate("n1")
    \/ SweeperNext

IdleSpec == InitWith(ScenCfg, 2) /\ [][IdleNext]_vars

-----------------------------------------------------------------------------
(* The server with idle_timeout = switch_grace, so that one tick can remove
   the current session, whose command runs, and a background session *)

ShortCfg == [idle_timeout |-> 1, switch_grace |-> 1, min_session_secs |-> 1]

ShortSpec == InitWith(ShortCfg, MaxCalls) /\ [][Next]_vars

-----------------------------------------------------------------------------
(* The server for as long as it runs: signals, one after another, and closes
   arrive until the clocks show MaxTime, the clocks go on until every session
   that is left is past both timeouts.  The tokio runtime runs every task that
   can go on, the clocks advance, and the command started by emit_cli_event
   exits. *)

LiveHorizon ==
    MaxTime + (IF cfg.idle_timeout >= cfg.switch_grace
               THEN cfg.idle_timeout ELSE cfg.switch_grace)

LiveClock ==
    /\ mono < LiveHorizon
    /\ mono' = mono + 1
    /\ wall' = wall + 1
    /\ UNCHANGED <<drained, calls, cfg, workspace_root, sessions, current_key, lock, pc, nloc,
                   c_key, c_maybe, s_now, to_flush, sd_sessions, next_id,
                   reports, defensive>>

CloseSteps ==
    \/ CloseClear
    \/ CloseEmit
    \/ CloseEmitReturn
    \/ CloseLog

NoteSteps == \E t \in NoteTasks :
    \/ NoteProject(t)
    \/ NoteUpdate(t)

LiveNext ==
    \/ LiveClock
    \/ mono <= MaxTime /\ (\E k \in Keys : NoteStart("n1", k))
    \/ NoteSteps
    \/ mono <= MaxTime /\ (\E k \in Keys : CloseRemove(k))
    \/ CloseSteps
    \/ SweeperNext

LiveSpec ==
    /\ Init
    /\ [][LiveNext]_vars
    /\ WF_vars(LiveClock)
    /\ WF_vars(SweeperNext)
    /\ WF_vars(CloseSteps)

-----------------------------------------------------------------------------
(* Helpers of the properties *)

TaskOf(by) ==
    CASE by = "close" -> CloseTask
      [] by = "sweeper" -> Sweeper
      [] by = "shutdown" -> ShutdownTask

CountInStore(st, i) == Cardinality({k \in DOMAIN st : st[k].id = i})

CountInSeq(q, i) == Cardinality({j \in DOMAIN q : q[j].id = i})

(* Copies of session instance i that exist anywhere in the program *)
Copies(i) ==
    CountInStore(sessions, i) + CountInSeq(c_maybe, i)
        + CountInSeq(to_flush, i) + CountInSeq(sd_sessions, i)

(* The sessions that were removed from the store and wait for their report *)
PendingRecords ==
    {c_maybe[j] : j \in DOMAIN c_maybe}
        \cup {to_flush[j] : j \in DOMAIN to_flush}
        \cup {sd_sessions[j] : j \in DOMAIN sd_sessions}

EmitPcs == {"c_emit", "c_cli", "s_emit", "s_cli", "sd_emit", "sd_cli"}

WaitPcs == {"c_cli", "s_cli", "sd_cli"}

KeyInFlight(k) == \E t \in NoteTasks : pc[t] # "idle" /\ nloc[t].key = k

-----------------------------------------------------------------------------
(* C1: whenever the store lock is free, a set current_key names a key of the
   sessions map, and the sweeper's branch for a current marker without a
   session (line 237) has never been taken. *)
C1_CurrentNamesSession ==
    (lock = None) =>
        /\ (current_key # None => current_key \in DOMAIN sessions)
        /\ ~defensive

(* A close of the current key has removed its session and cleared the marker
   while another session stays in the store *)
C1_Witness ==
    /\ lock = None
    /\ pc[CloseTask] = "c_emit"
    /\ current_key = None
    /\ DOMAIN sessions # {}

(* C2: every session instance ever constructed exists exactly once: in the
   store, or removed and waiting in the one list of the path that removed it,
   or handed to emit_cli_event exactly once; never two of these, never none. *)
C2_ExactlyOnce ==
    \A i \in Ids :
        IF i <= next_id
        THEN Copies(i) + Len(reports[i]) = 1
        ELSE Copies(i) = 0 /\ reports[i] = <<>>

(* Two instances were finalized by different paths *)
C2_Witness ==
    \E i, j \in Ids :
        /\ reports[i] # <<>> /\ reports[i][1].by = "sweeper"
        /\ reports[j] # <<>> /\ reports[j][1].by = "close"

(* C3: every session in the store has start_ts <= last_ts. *)
C3_StartBeforeLast ==
    \A k \in DOMAIN sessions : sessions[k].start_ts <= sessions[k].last_ts

(* C4: a call of emit_cli_event for a session with last_ts - start_ts below
   min_session_secs does not run the command, the session is not in the store,
   and the call returns Ok at once; with min_session_secs = 2 a session from
   t=0 to t=1 does not run the command. *)
C4_Step ==
    \A i \in Ids :
        (reports'[i] # reports[i]) =>
            \E s \in PendingRecords :
                /\ s.id = i
                /\ ((s.last_ts - s.start_ts) < cfg.min_session_secs) =>
                    /\ ~reports'[i][Len(reports'[i])].cli
                    /\ CountInStore(sessions', i) = 0
                    /\ pc'[TaskOf(reports'[i][Len(reports'[i])].by)]
                            \notin (WaitPcs \cup {"c_log"})

(* C4: the filter rejects the session of the scenario (t=0 to t=1, minimum 2),
   and C4_Step holds of every step. *)
C4_ShortSessionNotRecorded ==
    /\ ~runs_cli([min_session_secs |-> 2], [start_ts |-> 0, last_ts |-> 1])
    /\ [][C4_Step]_vars

(* A closed session shorter than the minimum was discarded, and all paths
   have handed over a session *)
C4_Witness ==
    /\ \E i \in Ids : reports[i] = <<[by |-> "close", cli |-> FALSE]>>
    /\ \E i \in Ids : reports[i] # <<>> /\ reports[i][1].by = "sweeper"

(* C5: the drain's critical section ends with an empty map and no current
   key; the drained sessions are exactly the sessions of the store, and each
   is handed to emit_cli_event once, by shutdown, and by nobody else. *)
C5_Inv ==
    /\ (pc[ShutdownTask] # "idle") =>
        \A i \in drained :
            /\ CountInStore(sessions, i) = 0
            /\ CountInSeq(c_maybe, i) = 0
            /\ CountInSeq(to_flush, i) = 0
            /\ CountInSeq(sd_sessions, i) + Len(reports[i]) = 1
            /\ reports[i] # <<>> => reports[i][1].by = "shutdown"
    /\ (pc[ShutdownTask] = "sd_done") =>
        \A i \in drained : Len(reports[i]) = 1

C5_Step ==
    /\ (pc[ShutdownTask] = "idle" /\ pc'[ShutdownTask] = "sd_clear") =>
        /\ {sd_sessions'[j].id : j \in DOMAIN sd_sessions'}
                = {sessions[k].id : k \in DOMAIN sessions}
        /\ Len(sd_sessions') = Cardinality(DOMAIN sessions)
    /\ (pc[ShutdownTask] = "sd_clear" /\ pc'[ShutdownTask] # "sd_clear") =>
        /\ lock' = None
        /\ sessions' = <<>>
        /\ current_key' = None

(* C5: C5_Inv holds in every state and C5_Step of every step. *)
C5_DrainReportsAll == []C5_Inv /\ [][C5_Step]_vars

(* The shutdown has returned after draining two sessions *)
C5_Witness ==
    /\ pc[ShutdownTask] = "sd_done"
    /\ Cardinality(drained) = 2

(* C6: at the step in which shutdown returns, no session instance is still in
   the store and none waits unreported in the sweeper's to_flush. *)
C6_Step ==
    (pc[ShutdownTask] # "sd_done" /\ pc'[ShutdownTask] = "sd_done") =>
        \A i \in Ids :
            /\ CountInStore(sessions', i) = 0
            /\ CountInSeq(to_flush', i) = 0

(* C6: C6_Step holds of every step. *)
C6_NothingDroppedAtShutdown == [][C6_Step]_vars

(* C7: a task that is about to call emit_cli_event, or is inside the call,
   does not hold the store lock. *)
C7_NoReportUnderLock ==
    \A t \in {CloseTask, Sweeper, ShutdownTask} :
        (pc[t] \in EmitPcs) => (lock # t)

(* Another task is inside its critical section while the sweeper's report is
   in progress *)
C7_Witness ==
    /\ pc[Sweeper] = "s_cli"
    /\ lock = ShutdownTask

(* C8: while a report started by the sweeper has not returned, the sweeper
   does not hold the lock and can perform its next tick. *)
C8_HungReportStallsNothing ==
    (pc[Sweeper] = "s_cli") =>
        /\ lock # Sweeper
        /\ ENABLED SweepTick

(* C9: once no note_activity call for a key is in flight, the session of the
   key has start_ts = the timestamp read by the first signal applied to it
   and last_ts = the timestamp read by the last one. *)
C9_FirstAndLastSignal ==
    \A k \in DOMAIN sessions :
        ~KeyInFlight(k) =>
            /\ sessions[k].start_ts = sessions[k].sig_first
            /\ sessions[k].last_ts = sessions[k].sig_last

(* C10: the step of note_activity that updates the store leaves every session
   of another key in the store, unchanged; a session that is not the current
   one leaves the store only in a grace step of the sweeper, a close of its
   key or the shutdown drain. *)
C10_Step ==
    /\ \A t \in NoteTasks :
        (pc[t] = "n_lock" /\ pc'[t] = "idle") =>
            \A k \in (DOMAIN sessions) \ {nloc[t].key} :
                /\ k \in DOMAIN sessions'
                /\ sessions'[k] = sessions[k]
    /\ \A k \in DOMAIN sessions :
        (k \notin DOMAIN sessions' /\ current_key # k) =>
            \/ pc[Sweeper] = "s_grace" /\ pc'[Sweeper] # "s_grace"
            \/ pc[CloseTask] = "idle" /\ pc'[CloseTask] = "c_clear" /\ c_key' = k
            \/ pc[ShutdownTask] = "idle" /\ pc'[ShutdownTask] = "sd_clear"

(* C10: C10_Step holds of every step. *)
C10_SwitchKeepsPrevious == [][C10_Step]_vars

(* After a switch from the file to the untitled document both sessions are in
   the store *)
C10_Witness ==
    /\ current_key = "untitled:b"
    /\ DOMAIN sessions = Keys
    /\ sessions["file:///a"].id < sessions["untitled:b"].id
    /\ pc = [t \in Tasks |-> IF t = Sweeper THEN "s_sleep" ELSE "idle"]

(* C11: a key has at most one session in the store and a session instance is
   under at most one key; the step of note_activity that finds no session for
   its key inserts a new instance whose start_ts and last_ts are the timestamp
   the call read, the step that finds one keeps that instance; the instance
   it writes was never finalized, and no step changes a record that was
   removed from the store. *)
C11_Inv ==
    /\ \A i \in Ids : CountInStore(sessions, i) <= 1
    /\ \A k \in DOMAIN sessions :
        /\ sessions[k].entity = entity_of(k)
        /\ reports[sessions[k].id] = <<>>
        /\ \A s \in PendingRecords : s.id # sessions[k].id

C11_Step ==
    /\ \A t \in NoteTasks :
        (pc[t] = "n_lock" /\ pc'[t] = "idle") =>
            LET k == nloc[t].key IN
            /\ k \in DOMAIN sessions'
            /\ reports'[sessions'[k].id] = <<>>
            /\ \A s \in PendingRecords' : s.id # sessions'[k].id
            /\ IF k \in DOMAIN sessions
               THEN sessions'[k].id = sessions[k].id
               ELSE /\ sessions'[k].id > next_id
                    /\ sessions'[k].start_ts = nloc[t].now_ts
                    /\ sessions'[k].last_ts = nloc[t].now_ts
            /\ c_maybe' = c_maybe
            /\ to_flush' = to_flush
            /\ sd_sessions' = sd_sessions
            /\ reports' = reports
    /\ \A s \in PendingRecords' :
        \/ s \in PendingRecords
        \/ \E k \in DOMAIN sessions : sessions[k] = s

(* C11: C11_Inv holds in every state and C11_Step of every step. *)
C11_FreshSessionAfterFinalization == []C11_Inv /\ [][C11_Step]_vars

(* The session of a key was closed and waits for its report while a later
   signal for the same key has inserted a new instance *)
C11_Witness ==
    \E k \in DOMAIN sessions :
        /\ c_maybe # <<>>
        /\ c_maybe[1].entity = entity_of(k)
        /\ c_maybe[1].id < sessions[k].id
        /\ sessions[k].start_ts > c_maybe[1].start_ts

(* The switch to B is complete: the call for B at t=5 has returned *)
SwitchDone == (ScenLeft = 1 /\ pc["n1"] = "idle") \/ ScenLeft = 0

(* What C12 says of A: no tick that read a time before 65 removes A; the
   grace step of a tick that read 65 or more removes A and puts it in
   to_flush, with duration 5; the sweeper hands it to emit_cli_event, which
   runs the command. *)
C12_AStep ==
    /\ (DocA \in DOMAIN sessions /\ DocA \notin DOMAIN sessions') =>
            /\ s_now >= 65
            /\ pc[Sweeper] = "s_grace"
    /\ (SwitchDone /\ pc[Sweeper] = "s_grace" /\ pc'[Sweeper] # "s_grace"
            /\ s_now >= 65 /\ DocA \in DOMAIN sessions) =>
            /\ DocA \notin DOMAIN sessions'
            /\ \E j \in DOMAIN to_flush' : to_flush'[j] = sessions[DocA]
            /\ \A j \in DOMAIN to_flush : to_flush[j] # sessions[DocA]
            /\ event_duration(sessions[DocA]) = 5
    /\ (pc[Sweeper] = "s_emit" /\ to_flush' # to_flush
            /\ Head(to_flush).entity = entity_of(DocA)) =>
            /\ event_duration(Head(to_flush)) = 5
            /\ reports'[Head(to_flush).id] = <<[by |-> "sweeper", cli |-> TRUE]>>

(* C12 as stated: A as above, and after the tick that removes A, B is in the
   store and is the current key. *)
C12_BStep ==
    (SwitchDone /\ pc[Sweeper] = "s_grace" /\ pc'[Sweeper] # "s_grace"
        /\ s_now >= 65 /\ DocA \in DOMAIN sessions) =>
        /\ DocB \in DOMAIN sessions'
        /\ current_key' = DocB

(* C12 as stated: what it says of A and of B holds of every step of the switch
   scenario. *)
C12_SwitchScenario == [][C12_AStep /\ C12_BStep]_vars

(* C12 amended: A as above; B stays in the store and current exactly when the
   last activity of B is less than idle_timeout before the time the tick
   read, otherwise the idle step of the same tick removes B and clears the
   current marker. *)
C12_BStepAmended ==
    (SwitchDone /\ pc[Sweeper] = "s_idle" /\ pc'[Sweeper] = "s_grace"
        /\ s_now >= 65 /\ DocA \in DOMAIN sessions) =>
        /\ current_key = DocB
        /\ DocB \in DOMAIN sessions
        /\ IF s_now - sessions[DocB].last_seen < 60
           THEN DocB \in DOMAIN sessions' /\ current_key' = DocB
           ELSE /\ DocB \notin DOMAIN sessions'
                /\ current_key' = None
                /\ to_flush' = <<sessions[DocB]>>

C12_GraceStepKeepsCurrent ==
    (pc[Sweeper] = "s_grace" /\ pc'[Sweeper] # "s_grace") =>
        /\ current_key' = current_key
        /\ current_key # None =>
            /\ current_key \in DOMAIN sessions'
            /\ sessions'[current_key] = sessions[current_key]

(* C12 amended: what it says of A, the amended statement about B, and the grace
   step leaving the current session alone, hold of every step of the switch
   scenario. *)
C12_SwitchScenarioAmended ==
    [][C12_AStep /\ C12_BStepAmended /\ C12_GraceStepKeepsCurrent]_vars

(* A tick at 65 or later has removed A under the grace rule while B, active
   again after t=5, is still in the store and current *)
C12_Witness ==
    /\ pc[Sweeper] = "s_emit"
    /\ Len(to_flush) = 1
    /\ to_flush[1].entity = entity_of(DocA)
    /\ to_flush[1].start_ts = 0
    /\ to_flush[1].last_ts = 5
    /\ current_key = DocB
    /\ DocB \in DOMAIN sessions
    /\ sessions[DocB].start_ts = 5

(* C13: the idle step of a tick removes the session of the current key if and
   only if the time the tick read is at least idle_timeout after the session's
   last_seen, puts it in to_flush and clears the current marker, and the grace
   step leaves the current session alone.  With idle_timeout = 60, A at t=0
   and t=10: no tick that read a time before 70 removes A, a tick that read 70
   or more removes it in its idle step, and A is reported with duration 10. *)
C13_Step ==
    /\ (pc[Sweeper] = "s_idle" /\ pc'[Sweeper] = "s_grace"
            /\ current_key \in DOMAIN sessions) =>
        IF s_now >= sessions[current_key].last_seen + cfg.idle_timeout
        THEN /\ current_key \notin DOMAIN sessions'
             /\ to_flush' = Append(to_flush, sessions[current_key])
             /\ current_key' = None
        ELSE /\ sessions' = sessions
             /\ current_key' = current_key
             /\ to_flush' = to_flush
    /\ (pc[Sweeper] = "s_grace" /\ pc'[Sweeper] # "s_grace"
            /\ current_key \in DOMAIN sessions) =>
        /\ current_key \in DOMAIN sessions'
        /\ sessions'[current_key] = sessions[current_key]
    /\ (DocA \in DOMAIN sessions /\ DocA \notin DOMAIN sessions') =>
        /\ s_now >= 70
        /\ pc[Sweeper] = "s_idle"
    /\ (pc[Sweeper] = "s_idle" /\ pc'[Sweeper] = "s_grace" /\ s_now >= 70
            /\ DocA \in DOMAIN sessions) =>
        /\ DocA \notin DOMAIN sessions'
        /\ to_flush' = <<sessions[DocA]>>
        /\ event_duration(sessions[DocA]) = 10
    /\ (pc[Sweeper] = "s_emit" /\ to_flush' # to_flush) =>
        /\ event_duration(Head(to_flush)) = 10
        /\ reports'[Head(to_flush).id] = <<[by |-> "sweeper", cli |-> TRUE]>>

(* C13: C13_Step holds of every step of the idle scenario. *)
C13_IdleRuleBoundary == [][C13_Step]_vars

(* The tick that read exactly 70 has removed A in its idle step *)
C13_Witness ==
    /\ pc[Sweeper] = "s_grace"
    /\ s_now = 70
    /\ current_key = None
    /\ sessions = <<>>
    /\ Len(to_flush) = 1
    /\ to_flush[1].start_ts = 0
    /\ to_flush[1].last_ts = 10
    /\ to_flush[1].last_seen = 10

(* C14: in one tick the idle step can remove only the session of the current
   key; the grace step removes exactly the sessions that are not named by the
   current marker as it is after the idle step and whose last_seen is at least
   switch_grace before the time the tick read, so never the current one; every
   removed session is in to_flush once; and between the two steps the sweeper
   holds the lock, so the store changes only by the grace step. *)
C14_Inv ==
    /\ (pc[Sweeper] = "s_grace") =>
        /\ lock = Sweeper
        /\ \A t \in NoteTasks : ~ENABLED NoteUpdate(t)
    /\ \A i \in Ids : CountInSeq(to_flush, i) <= 1

C14_Step ==
    /\ (pc[Sweeper] = "s_idle" /\ pc'[Sweeper] = "s_grace") =>
        /\ (DOMAIN sessions) \ (DOMAIN sessions') \subseteq {current_key}
        /\ \A k \in DOMAIN sessions' : sessions'[k] = sessions[k]
    /\ (pc[Sweeper] = "s_grace" /\ pc'[Sweeper] # "s_grace") =>
        LET removed == (DOMAIN sessions) \ (DOMAIN sessions') IN
        /\ removed = {k \in DOMAIN sessions :
                        /\ k # current_key
                        /\ s_now >= sessions[k].last_seen + cfg.switch_grace}
        /\ current_key \notin removed
        /\ current_key' = current_key
        /\ \A k \in DOMAIN sessions' : sessions'[k] = sessions[k]
        /\ Len(to_flush') = Len(to_flush) + Cardinality(removed)
        /\ \A k \in removed : CountInSeq(to_flush', sessions[k].id) = 1
    /\ (pc[Sweeper] = "s_grace"
            /\ (sessions' # sessions \/ current_key' # current_key)) =>
        pc'[Sweeper] # "s_grace"

(* C14: C14_Inv holds in every state and C14_Step of every step. *)
C14_IdleAndGraceInOneTick == []C14_Inv /\ [][C14_Step]_vars

(* A tick has removed a background session under the grace rule and has left
   the current session, whose last activity is no later *)
C14_Witness ==
    /\ pc[Sweeper] = "s_emit"
    /\ Len(to_flush) = 1
    /\ current_key \in DOMAIN sessions
    /\ sessions[current_key].last_seen <= to_flush[1].last_seen
    /\ mono >= sessions[current_key].last_seen + cfg.switch_grace

(* C15: the step of note_activity that inserts a session gives it the project
   label of the workspace root the store holds at that step ("unknown" when
   there is none). *)
C15_Step ==
    \A t \in NoteTasks :
        (pc[t] = "n_lock" /\ pc'[t] = "idle"
            /\ nloc[t].key \notin DOMAIN sessions) =>
            sessions'[nloc[t].key].project = project_string(workspace_root)

(* C15: C15_Step holds of every step. *)
C15_ProjectAtInsertion == [][C15_Step]_vars

(* C16: the step of note_activity that finds a session for its key sets that
   session's last_ts and last_seen to the values the call read and the current
   marker to the key; the session's start_ts, entity, project and instance,
   every other session, the set of keys and the workspace root are unchanged;
   the earlier steps of the call change nothing of the store. *)
C16_Step ==
    \A t \in NoteTasks :
        /\ (pc[t] = "n_lock" /\ pc'[t] = "idle"
                /\ nloc[t].key \in DOMAIN sessions) =>
            LET k == nloc[t].key IN
            /\ DOMAIN sessions' = DOMAIN sessions
            /\ sessions'[k].last_ts = nloc[t].now_ts
            /\ sessions'[k].last_seen = nloc[t].now_instant
            /\ sessions'[k].start_ts = sessions[k].start_ts
            /\ sessions'[k].entity = sessions[k].entity
            /\ sessions'[k].project = sessions[k].project
            /\ sessions'[k].id = sessions[k].id
            /\ \A j \in (DOMAIN sessions) \ {k} : sessions'[j] = sessions[j]
            /\ current_key' = k
            /\ workspace_root' = workspace_root
        /\ (pc'[t] # pc[t] /\ pc'[t] # "idle") =>
            /\ sessions' = sessions
            /\ current_key' = current_key
            /\ workspace_root' = workspace_root

(* C16: C16_Step holds of every step. *)
C16_UpdateFrame == [][C16_Step]_vars

(* A later signal has extended the session of the current key while another
   session is in the store *)
C16_Witness ==
    /\ current_key \in DOMAIN sessions
    /\ sessions[current_key].last_ts > sessions[current_key].start_ts
    /\ Cardinality(DOMAIN sessions) = 2

(* C17: a close of key K that finds no session leaves the sessions and the
   current marker as they are and returns without a call of emit_cli_event; a
   close that finds one removes exactly that session, clears the current
   marker if and only if it names K, leaves every other session unchanged, and
   hands the removed session to emit_cli_event as its next step, whatever the
   session's age. *)
C17_Inv ==
    /\ (pc[CloseTask] = "c_clear") => (lock = CloseTask)
    /\ (pc[CloseTask] = "c_emit") =>
        /\ Len(c_maybe) = 1
        /\ ENABLED CloseEmit

C17_Step ==
    /\ (pc[CloseTask] = "idle" /\ pc'[CloseTask] = "c_clear") =>
        LET k == c_key' IN
        /\ current_key' = current_key
        /\ IF k \in DOMAIN sessions
           THEN /\ DOMAIN sessions' = (DOMAIN sessions) \ {k}
                /\ c_maybe' = <<sessions[k]>>
           ELSE /\ sessions' = sessions
                /\ c_maybe' = <<>>
                /\ current_key # k
        /\ \A j \in DOMAIN sessions' : sessions'[j] = sessions[j]
    /\ (pc[CloseTask] = "c_clear" /\ pc'[CloseTask] # "c_clear") =>
        /\ sessions' = sessions
        /\ current_key' = (IF current_key = c_key THEN None ELSE current_key)
        /\ (c_maybe = <<>>) =>
            /\ pc'[CloseTask] = "idle"
            /\ current_key' = current_key
            /\ reports' = reports
        /\ (c_maybe # <<>>) => (pc'[CloseTask] = "c_emit")
    /\ (pc[CloseTask] = "c_emit" /\ pc'[CloseTask] # "c_emit") =>
        /\ reports'[c_maybe[1].id]
                = <<[by |-> "close", cli |-> runs_cli(cfg, c_maybe[1])]>>
        /\ sessions' = sessions
        /\ current_key' = current_key

(* C17: C17_Inv holds in every state and C17_Step of every step. *)
C17_CloseFrame == []C17_Inv /\ [][C17_Step]_vars

(* A close has removed a background session in the second of its last
   activity; the current session and the marker are still there *)
C17_Witness ==
    /\ pc[CloseTask] = "c_emit"
    /\ c_maybe[1].last_seen = mono
    /\ current_key \in DOMAIN sessions
    /\ current_key # None

(* C18: when a call of emit_cli_event made by the sweeper or by shutdown has
   returned an error, the task goes on exactly as after Ok: the sessions still
   marked stay marked and the next step hands the first of them to
   emit_cli_event; the store and the reports are untouched, so the failed
   session is neither re-inserted nor reported again; shutdown ends in its
   Ok(()) return, close logs the error and returns, and no session is ever
   handed over twice. *)
C18_Inv ==
    /\ \A i \in Ids :
        /\ Len(reports[i]) <= 1
        /\ (reports[i] # <<>>) =>
            /\ CountInStore(sessions, i) = 0
            /\ \A s \in PendingRecords : s.id # i
    /\ (pc[Sweeper] = "s_err") => ENABLED SweepEmitErr
    /\ (pc[Sweeper] = "s_emit") => (to_flush # <<>> /\ ENABLED SweepEmit)
    /\ (pc[ShutdownTask] = "sd_err") => ENABLED ShutdownEmitErr
    /\ (pc[ShutdownTask] = "sd_emit") => (sd_sessions # <<>> /\ ENABLED ShutdownEmit)
    /\ (pc[CloseTask] = "c_log") => ENABLED CloseLog

C18_Step ==
    /\ (pc[Sweeper] \in {"s_cli", "s_err"} /\ pc'[Sweeper] # pc[Sweeper]) =>
        /\ pc'[Sweeper] \in {"s_err",
                IF to_flush = <<>> THEN "s_sleep" ELSE "s_emit"}
        /\ pc[Sweeper] = "s_err" => pc'[Sweeper] # "s_err"
        /\ to_flush' = to_flush
        /\ sessions' = sessions
        /\ reports' = reports
    /\ (pc[ShutdownTask] \in {"sd_cli", "sd_err"}
            /\ pc'[ShutdownTask] # pc[ShutdownTask]) =>
        /\ pc'[ShutdownTask] \in {"sd_err",
                IF sd_sessions = <<>> THEN "sd_done" ELSE "sd_emit"}
        /\ pc[ShutdownTask] = "sd_err" => pc'[ShutdownTask] # "sd_err"
        /\ sd_sessions' = sd_sessions
        /\ sessions' = sessions
        /\ reports' = reports
    /\ (pc[CloseTask] \in {"c_cli", "c_log"} /\ pc'[CloseTask] # pc[CloseTask]) =>
        /\ pc'[CloseTask] \in {"c_log", "idle"}
        /\ pc[CloseTask] = "c_log" => pc'[CloseTask] = "idle"
        /\ sessions' = sessions
        /\ reports' = reports
    /\ \A t \in NoteTasks : (pc'[t] # pc[t]) => (reports' = reports)

(* C18: C18_Inv holds in every state and C18_Step of every step. *)
C18_FailureIsolated == []C18_Inv /\ [][C18_Step]_vars

(* The command run for the first session a tick marked has failed while the
   second marked session still waits for its report *)
C18_Witness ==
    /\ pc[Sweeper] = "s_err"
    /\ Len(to_flush) = 1
    /\ \E i \in Ids : reports[i] = <<[by |-> "sweeper", cli |-> TRUE]>>

(* C19: every session instance that is in the store is eventually handed to
   emit_cli_event (signals stop arriving in every run of LiveSpec). *)
C19_EventuallyFinalized ==
    \A i \in Ids : (CountInStore(sessions, i) = 1) ~> (reports[i] # <<>>)

(* The current session was closed, and the session left in the store with no
   current marker was then removed by the sweeper *)
C19_Witness ==
    /\ sessions = <<>>
    /\ \E i, j \in Ids :
        /\ i < j
        /\ reports[j] # <<>> /\ reports[j][1].by = "close"
        /\ reports[i] # <<>> /\ reports[i][1].by = "sweeper"
    /\ next_id = 2

====
